---------------------------- MODULE Spec2Model ----------------------------
(***************************************************************************)
(* Model of the AI Lead Response Assistant backend: the /respond pipeline  *)
(* (src/backend/main.py), the rule-based guardrails                        *)
(* (src/backend/guardrails.py), the request and extraction schemas         *)
(* (src/backend/schemas.py) and the model client                           *)
(* (src/backend/llm_service.py).                                           *)
(*                                                                         *)
(* Text.  A Python str is modelled as a sequence of tokens.  Each token is *)
(* the literal run of characters it is spelled with; the text is the       *)
(* concatenation of its tokens.  The token alphabets below are chosen so   *)
(* that every occurrence of a softening pattern or of a risky marker in a  *)
(* concatenation lies inside one token (no occurrence straddles two        *)
(* tokens), and no token other than the whitespace tokens starts or ends   *)
(* with whitespace.  Regular-expression matching, str.strip, str.lower,    *)
(* the substring test and re.split are then computed token by token from   *)
(* the character classes of each token's first and last character.        *)
(***************************************************************************)
EXTENDS Integers, Sequences, FiniteSets, TLC

VARIABLES
    pc,         \* position of the computation
    text,       \* input of _soften_guarantees when it is studied alone
    once,       \* _soften_guarantees(text)
    twice,      \* _soften_guarantees(_soften_guarantees(text))
    draft,      \* reply_text handed to apply_guardrails
    blob,       \* context_blob handed to apply_guardrails
    facts,      \* extracted_data handed to apply_guardrails
    softened,   \* apply_guardrails: cleaned after _soften_guarantees
    filtered,   \* apply_guardrails: cleaned after _remove_unverified_resolution_claims
    reply,      \* value returned by apply_guardrails
    extracted,  \* extracted_raw: the JSON object handed to model_validate
    status,     \* outcome of the request: 0 while none, else the HTTP status
    message,    \* request.message
    history,    \* the history value of the request body
    llm,        \* the model collaborator: API key set, response to each call
    conv,       \* respond: history after _sanitize_history and truncation
    calls       \* the model calls issued so far, in order

vars == <<pc, text, once, twice, draft, blob, facts, softened, filtered, reply,
          extracted, status, message, history, llm, conv, calls>>

requestVars == <<message, history, llm>>

guardVars == <<draft, blob, facts, softened, filtered, reply>>
softenVars == <<text, once, twice>>

-----------------------------------------------------------------------------
(* Bounds of the model *)

MaxSoftenLen == 4
MaxDraftLen == 4
MaxHistLen == 12
MaxInvalid == 2

-----------------------------------------------------------------------------
(* Characters of tokens *)

\* whitespace-only tokens (str.isspace, regex \s)
SpaceTokens == {" ", "\n"}

\* tokens whose first character is not a regex word character
NonWordFirst == SpaceTokens \cup {".", "{'issue_type': '", "', 'location': '",
    "', 'trigger': '", "', 'urgency': '", "', 'missing_information': ['",
    "', '", "']}", ": "}

\* tokens whose last character is one of . ! ?
TerminalLast == {".", "We fixed it.", "Thanks.", "The refund has been issued.",
    "An inspection may help confirm the exact cause.",
    "Thanks for sharing that.",
    "Based on what you described, an inspection may help confirm the exact cause and guide the next step.",
    "Thanks for the update.",
    "An inspection may help confirm the exact cause and the most suitable next step."}

\* tokens whose last character is not a regex word character
NonWordLast == SpaceTokens \cup TerminalLast \cup {"100%", "{'issue_type': '",
    "', 'location': '", "', 'trigger': '", "', 'urgency': '",
    "', 'missing_information': ['", "', '", "']}", ": ", "fixed the leak,"}

IsSpace(tok) == tok \in SpaceTokens

\* str.lower on a token
Lower(tok) ==
    CASE tok = "Guarantee" -> "guarantee"
      [] tok = "Definitely" -> "definitely"
      [] tok = "We fixed it." -> "we fixed it."
      [] tok = "We fixed" -> "we fixed"
      [] tok = "Refund has been issued" -> "refund has been issued"
      [] tok = "The refund has been issued." -> "the refund has been issued."
      [] tok = "We have" -> "we have"
      [] tok = "Thanks" -> "thanks"
      [] tok = "Thanks." -> "thanks."
      [] tok = "User" -> "user"
      [] tok = "Assistant" -> "assistant"
      [] OTHER -> tok

\* str.lower
LowerText(t) == [i \in 1..Len(t) |-> Lower(t[i])]

\* str.strip
RECURSIVE LStrip(_)
LStrip(t) == IF t # <<>> /\ IsSpace(Head(t)) THEN LStrip(Tail(t)) ELSE t

RECURSIVE RStrip(_)
RStrip(t) ==
    IF t # <<>> /\ IsSpace(t[Len(t)]) THEN RStrip(SubSeq(t, 1, Len(t) - 1)) ELSE t

Strip(t) == RStrip(LStrip(t))

\* all texts over an alphabet of at most n tokens
TextsUpTo(alphabet, n) == UNION {[1..k -> alphabet] : k \in 0..n}

-----------------------------------------------------------------------------
(* _soften_guarantees *)

CannotPhrase == "i cannot guarantee an outcome until the team verifies the details"
CantPhrase == "i can't guarantee an outcome until the team verifies the details"
InspectionSentence == "An inspection may help confirm the exact cause."

\* The replacements table in insertion order.  pat: the literal of the regular
\* expression; optDot: it ends with \.? ; trailingB: it ends with \b.  Every
\* pattern starts with \b.
\* the table with "for sure" rewritten to a word that an earlier rule rewrites
ReplacementsForSureDefinitely == <<
    [pat |-> CannotPhrase, optDot |-> TRUE, trailingB |-> FALSE,
     rep |-> InspectionSentence],
    [pat |-> CantPhrase, optDot |-> TRUE, trailingB |-> FALSE,
     rep |-> InspectionSentence],
    [pat |-> "guarantee", optDot |-> FALSE, trailingB |-> TRUE, rep |-> "commit"],
    [pat |-> "definitely", optDot |-> FALSE, trailingB |-> TRUE, rep |-> "likely"],
    [pat |-> "for sure", optDot |-> FALSE, trailingB |-> TRUE,
     rep |-> "definitely"],
    [pat |-> "100%", optDot |-> FALSE, trailingB |-> TRUE,
     rep |-> "to the best of our assessment"],
    [pat |-> "will be fixed", optDot |-> FALSE, trailingB |-> TRUE,
     rep |-> "can be investigated and addressed"],
    [pat |-> "is fixed", optDot |-> FALSE, trailingB |-> TRUE,
     rep |-> "appears to be addressed"] >>

Replacements == <<
    [pat |-> CannotPhrase, optDot |-> TRUE, trailingB |-> FALSE,
     rep |-> InspectionSentence],
    [pat |-> CantPhrase, optDot |-> TRUE, trailingB |-> FALSE,
     rep |-> InspectionSentence],
    [pat |-> "guarantee", optDot |-> FALSE, trailingB |-> TRUE, rep |-> "commit"],
    [pat |-> "definitely", optDot |-> FALSE, trailingB |-> TRUE, rep |-> "likely"],
    [pat |-> "for sure", optDot |-> FALSE, trailingB |-> TRUE,
     rep |-> "as appropriate"],
    [pat |-> "100%", optDot |-> FALSE, trailingB |-> TRUE,
     rep |-> "to the best of our assessment"],
    [pat |-> "will be fixed", optDot |-> FALSE, trailingB |-> TRUE,
     rep |-> "can be investigated and addressed"],
    [pat |-> "is fixed", optDot |-> FALSE, trailingB |-> TRUE,
     rep |-> "appears to be addressed"] >>

\* is the character before position i (the last character of t[i-1]) a word
\* character; the start of the text counts as a non-word character
WordBefore(t, i) == i > 1 /\ t[i - 1] \notin NonWordLast

\* is the character at position i (the first character of t[i]) a word
\* character; the end of the text counts as a non-word character
WordAt(t, i) == i <= Len(t) /\ t[i] \notin NonWordFirst

\* regex \b between t[i-1] and t[i]
Boundary(t, i) == WordBefore(t, i) # WordAt(t, i)

\* number of tokens the rule matches at position i of t (0: no match)
MatchLen(rule, t, i) ==
    IF Lower(t[i]) = rule.pat /\ Boundary(t, i)
    THEN IF rule.optDot /\ i < Len(t) /\ t[i + 1] = "."
         THEN 2
         ELSE IF rule.trailingB /\ ~Boundary(t, i + 1) THEN 0 ELSE 1
    ELSE 0

\* A pattern that matches inside a token: the phrases of the first two rules
\* contain the word guarantee between two spaces, so \bguarantee\b matches
\* there whenever the phrase itself is still in the text.
InnerSub(rule, tok) ==
    IF rule.pat = "guarantee" /\ Lower(tok) = CannotPhrase
    THEN "i cannot commit an outcome until the team verifies the details"
    ELSE IF rule.pat = "guarantee" /\ Lower(tok) = CantPhrase
    THEN "i can't commit an outcome until the team verifies the details"
    ELSE tok

\* re.sub(pattern, replacement, t, flags=re.IGNORECASE): leftmost,
\* non-overlapping matches against the original text, scanning from i
RECURSIVE SubFrom(_, _, _)
SubFrom(rule, t, i) ==
    IF i > Len(t) THEN <<>>
    ELSE LET n == MatchLen(rule, t, i)
         IN  IF n > 0
             THEN <<rule.rep>> \o SubFrom(rule, t, i + n)
             ELSE <<InnerSub(rule, t[i])>> \o SubFrom(rule, t, i + 1)

ReSub(rule, t) == SubFrom(rule, t, 1)

\* the for loop over replacements.items(), rules k..Len(table)
RECURSIVE ApplyRules(_, _, _)
ApplyRules(table, t, k) ==
    IF k > Len(table) THEN t
    ELSE ApplyRules(table, ReSub(table[k], t), k + 1)

_soften_guarantees(t) == ApplyRules(Replacements, t, 1)

-----------------------------------------------------------------------------
(* _remove_unverified_resolution_claims *)

risky_markers == <<"already resolved", "issue has been fixed", "we fixed",
    "refund has been issued", "technician has been dispatched",
    "your case is closed">>

\* marker in low (Python's substring test), for a lower-cased token low
MarkerInToken(marker, low) ==
    \/ low = marker
    \/ <<low, marker>> \in {<<"we fixed it.", "we fixed">>,
                            <<"the refund has been issued.", "refund has been issued">>}

\* marker in t.lower()
MarkerIn(marker, t) == \E i \in 1..Len(t) : MarkerInToken(marker, Lower(t[i]))

\* any(marker in t.lower() for marker in risky_markers)
AnyMarkerIn(t) == \E k \in 1..Len(risky_markers) : MarkerIn(risky_markers[k], t)

\* first position at or after i that holds no whitespace token
RECURSIVE SkipSpace(_, _)
SkipSpace(t, i) == IF i <= Len(t) /\ IsSpace(t[i]) THEN SkipSpace(t, i + 1) ELSE i

\* re.split(r"(?<=[.!?])\s+", t): cur is the sentence being collected
RECURSIVE SplitFrom(_, _, _)
SplitFrom(t, i, cur) ==
    IF i > Len(t) THEN <<cur>>
    ELSE IF IsSpace(t[i]) /\ i > 1 /\ t[i - 1] \in TerminalLast
         THEN <<cur>> \o SplitFrom(t, SkipSpace(t, i), <<>>)
         ELSE SplitFrom(t, i + 1, Append(cur, t[i]))

Split(t) == SplitFrom(t, 1, <<>>)

\* " ".join(sentences)
RECURSIVE Join(_)
Join(sentences) ==
    IF sentences = <<>> THEN <<>>
    ELSE IF Len(sentences) = 1 THEN sentences[1]
    ELSE sentences[1] \o <<" ">> \o Join(Tail(sentences))

\* the loop with a risky sentence kept only when the context holds a marker
\* that the sentence itself holds
RECURSIVE KeepSentencesSameMarker(_, _)
KeepSentencesSameMarker(sentences, context) ==
    IF sentences = <<>> THEN <<>>
    ELSE LET sentence == Head(sentences)
             rest == KeepSentencesSameMarker(Tail(sentences), context)
         IN  IF ~AnyMarkerIn(sentence) THEN <<sentence>> \o rest
             ELSE IF \E k \in 1..Len(risky_markers) :
                         /\ MarkerIn(risky_markers[k], sentence)
                         /\ MarkerIn(risky_markers[k], context)
                  THEN <<sentence>> \o rest
                  ELSE rest

\* the for loop over sentences: the sentences appended to filtered
RECURSIVE KeepSentences(_, _)
KeepSentences(sentences, context) ==
    IF sentences = <<>> THEN <<>>
    ELSE LET sentence == Head(sentences)
             is_risky == AnyMarkerIn(sentence)
             rest == KeepSentences(Tail(sentences), context)
         IN  IF ~is_risky THEN <<sentence>> \o rest
             ELSE IF AnyMarkerIn(context) THEN <<sentence>> \o rest
             ELSE rest

\* the markers looked for in the sentence as written, without lower()
RECURSIVE KeepSentencesCaseSensitive(_, _)
KeepSentencesCaseSensitive(sentences, context) ==
    IF sentences = <<>> THEN <<>>
    ELSE LET sentence == Head(sentences)
             is_risky == \E k \in 1..Len(risky_markers), i \in 1..Len(sentence) :
                             MarkerInToken(risky_markers[k], sentence[i])
             rest == KeepSentencesCaseSensitive(Tail(sentences), context)
         IN  IF ~is_risky \/ AnyMarkerIn(context) THEN <<sentence>> \o rest ELSE rest

RemoveClaimsCaseSensitive(t, context_blob) ==
    Strip(Join(KeepSentencesCaseSensitive(Split(Strip(t)), context_blob)))

\* the whole text dropped when it holds an uncorroborated marker
RemoveClaimsWholeText(t, context_blob) ==
    IF AnyMarkerIn(t) /\ ~AnyMarkerIn(context_blob)
    THEN <<>>
    ELSE Strip(Join(Split(Strip(t))))

_remove_unverified_resolution_claims(t, context_blob) ==
    Strip(Join(KeepSentences(Split(Strip(t)), context_blob)))

-----------------------------------------------------------------------------
(* apply_guardrails *)

Fallback1 == <<"Thanks for sharing that.", " ",
    "Based on what you described, an inspection may help confirm the exact cause and guide the next step.">>

Fallback2 == <<"Thanks for the update.", " ",
    "An inspection may help confirm the exact cause and the most suitable next step.">>

\* repr of a str inside the dict rendering: a newline is written as \n
ReprText(t) == [i \in 1..Len(t) |-> IF t[i] = "\n" THEN "\\n" ELSE t[i]]

RECURSIVE ReprItems(_)
ReprItems(items) ==
    IF items = <<>> THEN <<>>
    ELSE IF Len(items) = 1 THEN ReprText(items[1])
    ELSE ReprText(items[1]) \o <<"', '">> \o ReprItems(Tail(items))

\* f"{extracted_data}": str() of the dict of the five fields
DictStr(d) ==
    <<"{'issue_type': '">> \o ReprText(d.issue_type)
    \o <<"', 'location': '">> \o ReprText(d.location)
    \o <<"', 'trigger': '">> \o ReprText(d.trigger)
    \o <<"', 'urgency': '">> \o ReprText(d.urgency)
    \o <<"', 'missing_information': ['">> \o ReprItems(d.missing_information)
    \o <<"']}">>

\* combined_context = f"{context_blob}\n{extracted_data}"
CombinedContext(context_blob, extracted_data) ==
    context_blob \o <<"\n">> \o DictStr(extracted_data)

\* apply_guardrails without its second fallback
GuardrailsNoSecondFallback(reply_text, context_blob, extracted_data) ==
    LET cleaned == Strip(reply_text)
        soft == _soften_guarantees(cleaned)
        kept == _remove_unverified_resolution_claims(
                    soft, CombinedContext(context_blob, extracted_data))
    IN  IF cleaned = <<>>
        THEN [softened |-> <<>>, filtered |-> <<>>, reply |-> Fallback1]
        ELSE [softened |-> soft, filtered |-> kept, reply |-> kept]

\* apply_guardrails, with its intermediate values
Guardrails(reply_text, context_blob, extracted_data) ==
    LET cleaned == Strip(reply_text)
        soft == _soften_guarantees(cleaned)
        kept == _remove_unverified_resolution_claims(
                    soft, CombinedContext(context_blob, extracted_data))
    IN  IF cleaned = <<>>
        THEN [softened |-> <<>>, filtered |-> <<>>, reply |-> Fallback1]
        ELSE [softened |-> soft, filtered |-> kept,
              reply |-> IF kept = <<>> THEN Fallback2 ELSE kept]

apply_guardrails(reply_text, context_blob, extracted_data) ==
    Guardrails(reply_text, context_blob, extracted_data).reply

-----------------------------------------------------------------------------
(* JSON values and StructuredExtraction *)

\* A JSON value: k is its type, v the tokens of str(value) for a value that is
\* not a list, items the elements of a list.  Absent marks a key that the
\* object does not hold.
Absent == [k |-> "absent", v |-> <<>>, items |-> <<>>]
JNull == [k |-> "null", v |-> <<"None">>, items |-> <<>>]
JStr(t) == [k |-> "str", v |-> t, items |-> <<>>]
JNum == [k |-> "num", v |-> <<"5">>, items |-> <<>>]
JBool == [k |-> "bool", v |-> <<"True">>, items |-> <<>>]
JObj == [k |-> "obj", v |-> <<"{}">>, items |-> <<>>]
JList(elements) == [k |-> "list", v |-> <<>>, items |-> elements]

NotAvailable == <<"Not Available">>

SentinelFacts == [issue_type |-> NotAvailable, location |-> NotAvailable,
    trigger |-> NotAvailable, urgency |-> NotAvailable,
    missing_information |-> <<NotAvailable>>]

TextFields == {"issue_type", "location", "trigger", "urgency"}
FieldNames == TextFields \cup {"missing_information"}

\* the object with no key
NoObject == [f \in FieldNames |-> Absent]

\* repr of a list element
PyRepr(value) ==
    IF value.k = "str" THEN <<"'">> \o value.v \o <<"'">> ELSE value.v

RECURSIVE PyReprItems(_)
PyReprItems(elements) ==
    IF elements = <<>> THEN <<>>
    ELSE IF Len(elements) = 1 THEN PyRepr(elements[1])
    ELSE PyRepr(elements[1]) \o <<",", " ">> \o PyReprItems(Tail(elements))

\* str(value)
PyStr(value) ==
    IF value.k = "list" THEN <<"[">> \o PyReprItems(value.items) \o <<"]">>
    ELSE value.v

\* normalize_text_fields
normalize_text_fields(value) ==
    IF value.k = "null" THEN NotAvailable
    ELSE LET stripped == Strip(PyStr(value))
         IN  IF stripped # <<>> THEN stripped ELSE NotAvailable

\* [str(item).strip() for item in value if str(item).strip()]
RECURSIVE CleanedItems(_)
CleanedItems(elements) ==
    IF elements = <<>> THEN <<>>
    ELSE LET stripped == Strip(PyStr(Head(elements)))
         IN  IF stripped # <<>> THEN <<stripped>> \o CleanedItems(Tail(elements))
             ELSE CleanedItems(Tail(elements))

\* normalize_missing_information
normalize_missing_information(value) ==
    IF value.k = "null" THEN <<NotAvailable>>
    ELSE IF value.k = "str"
         THEN LET cleaned == Strip(value.v)
              IN  IF cleaned # <<>> THEN <<cleaned>> ELSE <<NotAvailable>>
    ELSE IF value.k = "list"
         THEN LET cleaned_items == CleanedItems(value.items)
              IN  IF cleaned_items # <<>> THEN cleaned_items ELSE <<NotAvailable>>
    ELSE <<NotAvailable>>

\* StructuredExtraction.model_validate(obj).  The four text fields are declared
\* Field(...): required, so a missing key is a validation error and the
\* "before" validator of the field is not run.  missing_information has a
\* default_factory, used as it is when the key is missing.
model_validate(obj) ==
    IF \E f \in TextFields : obj[f].k = "absent"
    THEN [ok |-> FALSE, value |-> SentinelFacts]
    ELSE [ok |-> TRUE,
          value |-> [issue_type |-> normalize_text_fields(obj["issue_type"]),
                     location |-> normalize_text_fields(obj["location"]),
                     trigger |-> normalize_text_fields(obj["trigger"]),
                     urgency |-> normalize_text_fields(obj["urgency"]),
                     missing_information |->
                         IF obj["missing_information"].k = "absent"
                         THEN <<NotAvailable>>
                         ELSE normalize_missing_information(
                                  obj["missing_information"])]]

-----------------------------------------------------------------------------
(* ChatRequest and _sanitize_history *)

\* An element of the history list: a dict with its role and content (a key the
\* dict does not hold reads as "", the default of item.get), or not a dict.
Item(role, content) == [dict |-> TRUE, role |-> role, content |-> content]
NonDictItem == [dict |-> FALSE, role |-> <<>>, content |-> <<>>]

\* The history value of the request body: a list, null, or another value.
ListHistory(items) == [k |-> "list", items |-> items]
NullHistory == [k |-> "null", items |-> <<>>]
OtherHistory == [k |-> "other", items |-> <<>>]

\* ChatRequest.normalize_history
normalize_history(value) ==
    IF value.k = "null" THEN <<>>
    ELSE IF value.k # "list" THEN <<>>
    ELSE value.items

\* ChatRequest accepts the body: message holds at least one character and every
\* element of the normalized history is a dict
RequestValid(msg, hist) ==
    /\ Len(msg) >= 1
    /\ \A i \in 1..Len(normalize_history(hist)) : normalize_history(hist)[i].dict

\* _sanitize_history
RECURSIVE _sanitize_history(_)
_sanitize_history(items) ==
    IF items = <<>> THEN <<>>
    ELSE LET item == Head(items)
             role == LowerText(Strip(item.role))
             content == Strip(item.content)
             rest == _sanitize_history(Tail(items))
         IN  IF ~item.dict THEN rest
             ELSE IF role \notin {<<"user">>, <<"assistant">>} THEN rest
             ELSE IF content = <<>> THEN rest
             ELSE <<[role |-> role, content |-> content]>> \o rest

MAX_HISTORY == 10

\* seq[-n:]
LastN(seq, n) ==
    IF Len(seq) <= n THEN seq ELSE SubSeq(seq, Len(seq) - n + 1, Len(seq))

\* the sanitized history cut before it is sanitized
BoundedHistoryCutFirst(hist) ==
    _sanitize_history(LastN(normalize_history(hist), MAX_HISTORY))

\* respond, lines 97-100
BoundedHistory(hist) ==
    LastN(_sanitize_history(normalize_history(hist)), MAX_HISTORY)

\* "\n".join(f"{msg['role']}: {msg['content']}" for msg in context_messages)
RECURSIVE ContextBlob(_)
ContextBlob(context_messages) ==
    IF context_messages = <<>> THEN <<>>
    ELSE LET line == Head(context_messages).role \o <<": ">>
                         \o Head(context_messages).content
         IN  IF Len(context_messages) = 1 THEN line
             ELSE line \o <<"\n">> \o ContextBlob(Tail(context_messages))

\* the message test of respond without the strip
IsBlankNoStrip(msg) == msg = <<>>

\* respond, lines 89-90: not request.message.strip()
IsBlank(msg) == Strip(msg) = <<>>

-----------------------------------------------------------------------------
(* _call_openrouter *)

\* The HTTP exchange with OpenRouter.  raises: requests.post or
\* raise_for_status raises a RequestException ("transport", "status") or not
\* ("none"); body: the response body is not JSON ("invalid"), a JSON list or a
\* JSON object ("dict"); choices: the value of its "choices" key; first:
\* whether choices[0] is a dict; msg: the value of its "message" key; content:
\* the value of the "content" key of the message.
Exchange(raises, body, choices, first, msg, content) ==
    [raises |-> raises, body |-> body, choices |-> choices, first |-> first,
     msg |-> msg, content |-> content]

Completion(content) == Exchange("none", "dict", "list", "dict", "dict", content)

LLMServiceError == [out |-> "LLMServiceError", content |-> <<>>]
OtherException == [out |-> "Exception", content |-> <<>>]

_call_openrouter(api_key, x) ==
    IF ~api_key THEN LLMServiceError
    ELSE IF x.raises # "none" THEN LLMServiceError
    ELSE IF x.body = "invalid" THEN OtherException  \* response.json() raises
    ELSE IF x.body # "dict" THEN OtherException     \* data.get: AttributeError
    ELSE IF x.choices # "list" THEN LLMServiceError \* absent, null or empty
    ELSE IF x.first # "dict" THEN OtherException    \* choices[0].get
    ELSE IF x.msg = "null" THEN OtherException      \* None.get
    ELSE LET content == IF x.msg = "absent" \/ x.content.k = "absent"
                        THEN JStr(<<>>) ELSE x.content
         IN  IF content.k # "str" \/ Strip(content.v) = <<>>
             THEN LLMServiceError
             ELSE [out |-> "ok", content |-> Strip(content.v)]

-----------------------------------------------------------------------------
(* _parse_json_object *)

\* Tokens that are the text of a JSON object, with the object they parse to.
FullObjectText ==
    "{\"issue_type\": \"leak\", \"location\": \" roof \", \"trigger\": \"rain\", \"urgency\": 5, \"missing_information\": [\"address\", \"\"]}"
ScenarioObjectText == "{\"issue_type\": \"\", \"missing_information\": null}"
NullObjectText ==
    "{\"issue_type\": null, \"location\": null, \"trigger\": null, \"urgency\": null, \"missing_information\": []}"
MarkerObjectText ==
    "{\"issue_type\": \"refund has been issued\", \"location\": \"\", \"trigger\": \"\", \"urgency\": \"\"}"

ObjectTexts == {FullObjectText, ScenarioObjectText, NullObjectText, MarkerObjectText}

ObjectOf(tok) ==
    CASE tok = FullObjectText ->
             [NoObject EXCEPT !["issue_type"] = JStr(<<"leak">>),
                              !["location"] = JStr(<<" ", "roof", " ">>),
                              !["trigger"] = JStr(<<"rain">>),
                              !["urgency"] = JNum,
                              !["missing_information"] =
                                  JList(<<JStr(<<"address">>), JStr(<<>>)>>)]
      [] tok = ScenarioObjectText ->
             [NoObject EXCEPT !["issue_type"] = JStr(<<>>),
                              !["missing_information"] = JNull]
      [] tok = NullObjectText ->
             [NoObject EXCEPT !["issue_type"] = JNull, !["location"] = JNull,
                              !["trigger"] = JNull, !["urgency"] = JNull,
                              !["missing_information"] = JList(<<>>)]
      [] tok = MarkerObjectText ->
             [NoObject EXCEPT !["issue_type"] = JStr(<<"refund has been issued">>),
                              !["location"] = JStr(<<>>),
                              !["trigger"] = JStr(<<>>),
                              !["urgency"] = JStr(<<>>)]
      [] OTHER -> NoObject

\* tokens that are the text of a JSON value that is not an object
ScalarTexts == {"42", "null", "\"leak\""}

\* A JSON array nested deeper than the interpreter's recursion limit (the text
\* "[" repeated 100000 times): json.loads raises RecursionError, which is not
\* a JSONDecodeError.
DeepArrayText == "[[[[[[[[[[[[[[[[[[[[[[[[[[[[[[[[..."

\* json.loads(t)
json_loads(t) ==
    LET raw == Strip(t)
    IN  IF Len(raw) = 1 /\ raw[1] \in ObjectTexts
        THEN [out |-> "dict", value |-> ObjectOf(raw[1])]
        ELSE IF Len(raw) = 1 /\ raw[1] \in ScalarTexts
        THEN [out |-> "other", value |-> NoObject]
        ELSE IF Len(raw) = 3 /\ raw[1] = "[" /\ raw[3] = "]"
                /\ raw[2] \in ObjectTexts \cup ScalarTexts
        THEN [out |-> "other", value |-> NoObject]
        ELSE IF raw # <<>> /\ raw[1] = DeepArrayText
        THEN [out |-> "RecursionError", value |-> NoObject]
        ELSE [out |-> "JSONDecodeError", value |-> NoObject]

\* positions of the tokens that hold a "{" and of those that hold a "}"
OpenAt(raw) == {i \in 1..Len(raw) : raw[i] = "{" \/ raw[i] \in ObjectTexts}
CloseAt(raw) == {i \in 1..Len(raw) : raw[i] = "}" \/ raw[i] \in ObjectTexts}

SetMin(S) == CHOOSE x \in S : \A y \in S : x <= y
SetMax(S) == CHOOSE x \in S : \A y \in S : x >= y

\* the second attempt of _parse_json_object, lines 73-82
ParseCandidate(raw) ==
    IF OpenAt(raw) # {} /\ CloseAt(raw) # {} /\ SetMax(CloseAt(raw)) >= SetMin(OpenAt(raw))
    THEN LET candidate == SubSeq(raw, SetMin(OpenAt(raw)), SetMax(CloseAt(raw)))
             parsed == json_loads(candidate)
         IN  IF parsed.out = "dict" THEN [out |-> "ok", value |-> parsed.value]
             ELSE IF parsed.out = "JSONDecodeError"
             THEN [out |-> "LLMServiceError", value |-> NoObject]
             ELSE IF parsed.out = "RecursionError"
             THEN [out |-> "Exception", value |-> NoObject]
             ELSE [out |-> "LLMServiceError", value |-> NoObject]
    ELSE [out |-> "LLMServiceError", value |-> NoObject]

\* _parse_json_object
_parse_json_object(t) ==
    LET raw == Strip(t)
        parsed == json_loads(raw)
    IN  IF parsed.out = "dict" THEN [out |-> "ok", value |-> parsed.value]
        ELSE IF parsed.out = "RecursionError"
        THEN [out |-> "Exception", value |-> NoObject]
        ELSE ParseCandidate(raw)

-----------------------------------------------------------------------------
(* Inputs of apply_guardrails *)

GuardAlphabet == {"we fixed", "Refund has been issued", "Thanks", ".", " ", "\n",
    "definitely", CannotPhrase}

\* the draft of the guarantee-softening scenario, and a draft of three sentences
\* whose middle sentence is risky
ScenarioDraft == <<"We have", " ", "definitely", " ", "fixed the leak,", " ",
    "100%", " ", "guarantee", "d", ".", " ", "The refund has been issued.">>

ThreeSentenceDraft == <<"Thanks", ".", "\n", "we fixed", ".", " ", "\n", "Thanks">>

GuardDrafts == TextsUpTo(GuardAlphabet, MaxDraftLen)
                   \cup {ScenarioDraft, ThreeSentenceDraft}

GuardBlobs == {<<>>, <<"user", ": ", "Refund has been issued", " ", "yesterday">>}

GuardFacts == {SentinelFacts,
               [SentinelFacts EXCEPT !.issue_type = <<"leak">>,
                                     !.missing_information =
                                         <<<<"address">>, <<"whether", " ", "we fixed", " ", "it">>>>]}

-----------------------------------------------------------------------------
(* respond *)

\* the responses of the collaborator when no request is studied
IdleLlm == [api_key |-> TRUE, extract |-> Completion(JStr(<<FullObjectText>>)),
            synth |-> Completion(JStr(<<"Thanks", ".">>))]

NoRequest ==
    /\ message = <<>> /\ history = NullHistory /\ llm = IdleLlm
    /\ conv = <<>> /\ calls = <<>>

\* FastAPI builds the ChatRequest from the body: a body the schema rejects is
\* answered 422 and respond is not run
ValidateRequest ==
    /\ pc = "request"
    /\ IF RequestValid(message, history)
       THEN pc' = "respond" /\ status' = status
       ELSE pc' = "done" /\ status' = 422
    /\ UNCHANGED <<softenVars, guardVars, extracted, requestVars, conv, calls>>

\* respond, lines 89-113: up to the call of extract_structured_data
RespondStart ==
    /\ pc = "respond"
    /\ IF IsBlank(message)
       THEN /\ pc' = "done" /\ status' = 400
            /\ UNCHANGED <<conv, blob, calls>>
       ELSE LET latest_message == Strip(message)
                bounded == BoundedHistory(history)
                context_messages ==
                    Append(bounded, [role |-> <<"user">>, content |-> latest_message])
            IN  /\ conv' = bounded
                /\ blob' = ContextBlob(context_messages)
                /\ calls' = Append(calls, "extract")
                /\ pc' = "extracting" /\ status' = status
    /\ UNCHANGED <<softenVars, draft, facts, softened, filtered, reply, extracted,
                   requestVars>>

\* respond, lines 113-123 and 136-143: extract_structured_data returns or
\* raises, model_validate, up to the call of generate_reply
ExtractReturns ==
    /\ pc = "extracting"
    /\ LET called == _call_openrouter(llm.api_key, llm.extract)
           parsed == _parse_json_object(called.content)
           valid == model_validate(parsed.value)
           raised == IF called.out # "ok" THEN called.out
                     ELSE IF parsed.out # "ok" THEN parsed.out
                     ELSE IF ~valid.ok THEN "Exception"
                     ELSE "none"
       IN  IF raised = "none"
           THEN /\ extracted' = parsed.value
                /\ facts' = valid.value
                /\ calls' = Append(calls, "synth")
                /\ pc' = "synthesizing" /\ status' = status
           ELSE /\ pc' = "done"
                /\ status' = IF raised = "LLMServiceError" THEN 502 ELSE 500
                /\ UNCHANGED <<extracted, facts, calls>>
    /\ UNCHANGED <<softenVars, draft, blob, softened, filtered, reply,
                   requestVars, conv>>

\* respond without the call of apply_guardrails: the draft is the reply
SynthReturnsUnfiltered ==
    /\ pc = "synthesizing"
    /\ LET called == _call_openrouter(llm.api_key, llm.synth)
       IN  IF called.out = "ok"
           THEN /\ draft' = called.content
                /\ softened' = called.content
                /\ filtered' = called.content
                /\ reply' = called.content
                /\ status' = 200
           ELSE /\ status' = IF called.out = "LLMServiceError" THEN 502 ELSE 500
                /\ UNCHANGED <<draft, softened, filtered, reply>>
    /\ pc' = "done"
    /\ UNCHANGED <<softenVars, blob, facts, extracted, requestVars, conv, calls>>

\* respond, lines 119-143: generate_reply returns or raises, apply_guardrails
SynthReturns ==
    /\ pc = "synthesizing"
    /\ LET called == _call_openrouter(llm.api_key, llm.synth)
           g == Guardrails(called.content, blob, facts)
       IN  IF called.out = "ok"
           THEN /\ draft' = called.content
                /\ softened' = g.softened
                /\ filtered' = g.filtered
                /\ reply' = g.reply
                /\ status' = 200
           ELSE /\ status' = IF called.out = "LLMServiceError" THEN 502 ELSE 500
                /\ UNCHANGED <<draft, softened, filtered, reply>>
    /\ pc' = "done"
    /\ UNCHANGED <<softenVars, blob, facts, extracted, requestVars, conv, calls>>

Next == ValidateRequest \/ RespondStart \/ ExtractReturns \/ SynthReturns

\* the i-th message of a generated history
Msg == <<"m1", "m2", "m3", "m4", "m5", "m6", "m7", "m8", "m9", "m10", "m11",
         "m12", "m13", "m14", "m15", "m16">>

\* the way the i-th element is invalid when it is: a role that is neither user
\* nor assistant, a blank content, or a dict without the two keys
InvalidKindAt(i) ==
    IF i % 3 = 1 THEN "bad_role" ELSE IF i % 3 = 2 THEN "blank_content" ELSE "no_keys"

\* the i-th element of a generated history: of the given invalid kind, or valid
\* with a role and a content that need trimming or lower-casing at some places
GeneratedItem(i, kind) ==
    IF kind = "bad_role" THEN Item(<<"system">>, <<Msg[i]>>)
    ELSE IF kind = "blank_content" THEN Item(<<"user">>, <<" ", "\n">>)
    ELSE IF kind = "no_keys" THEN Item(<<>>, <<>>)
    ELSE Item(IF i % 2 = 1 THEN <<"user">> ELSE <<" ", "Assistant", "\n">>,
              IF i % 3 = 0 THEN <<" ", Msg[i], " ">> ELSE <<Msg[i]>>)

\* the histories of at most MaxHistLen elements of which at most MaxInvalid,
\* at any positions, are invalid
Histories ==
    UNION { { ListHistory([i \in 1..n |->
                  GeneratedItem(i, IF i \in bad THEN InvalidKindAt(i) ELSE "valid")])
              : bad \in {b \in SUBSET (1..n) : Cardinality(b) <= MaxInvalid} }
            : n \in 0..MaxHistLen }

SomeHistories == {NullHistory, OtherHistory, ListHistory(<<>>),
    ListHistory(<<GeneratedItem(1, "valid"), GeneratedItem(2, "bad_role"),
                  GeneratedItem(3, "valid"), GeneratedItem(4, "no_keys"),
                  GeneratedItem(5, "blank_content")>>),
    ListHistory(<<GeneratedItem(1, "valid"), NonDictItem>>)}

Messages == {<<>>, <<" ">>, <<"\n", " ">>, <<" ", "my roof leaks", " ">>,
             <<"was the", " ", "Refund has been issued", "?">>}

CallFailures == {
    Exchange("transport", "invalid", "absent", "other", "absent", Absent),
    Exchange("status", "dict", "absent", "other", "absent", Absent),
    Exchange("none", "invalid", "absent", "other", "absent", Absent),
    Exchange("none", "list", "absent", "other", "absent", Absent),
    Exchange("none", "dict", "absent", "other", "absent", Absent),
    Exchange("none", "dict", "null", "other", "absent", Absent),
    Exchange("none", "dict", "empty", "other", "absent", Absent),
    Exchange("none", "dict", "list", "other", "absent", Absent),
    Exchange("none", "dict", "list", "dict", "absent", Absent),
    Exchange("none", "dict", "list", "dict", "null", Absent),
    Completion(Absent), Completion(JNull), Completion(JList(<<JStr(<<"Thanks">>)>>)),
    Completion(JStr(<<>>)), Completion(JStr(<<" ", "\n">>)) }

ExtractContents == {
    <<FullObjectText>>, <<" ", FullObjectText, "\n">>,
    <<"Here is the JSON:", "\n", FullObjectText, "\n", "Hope this helps">>,
    <<"[", FullObjectText, "]">>,
    <<ScenarioObjectText>>, <<NullObjectText>>, <<MarkerObjectText>>,
    <<"42">>, <<"no json here">>, <<"{", "not json", "}">>,
    <<FullObjectText, " ", FullObjectText>>, <<"}", " ", "{">>,
    <<DeepArrayText>> }

SynthContents == {<<"Thanks", ".", " ", "we fixed", ".">>,
                  <<" ", "The refund has been issued.", "\n">>}

LlmBehaviours ==
    [api_key : {TRUE},
     extract : CallFailures \cup {Completion(JStr(c)) : c \in ExtractContents},
     synth : CallFailures \cup {Completion(JStr(c)) : c \in SynthContents}]
    \cup {[IdleLlm EXCEPT !.api_key = FALSE]}

IdleRest ==
    /\ text = <<>> /\ once = <<>> /\ twice = <<>>
    /\ draft = <<>> /\ blob = <<>> /\ facts = SentinelFacts
    /\ softened = <<>> /\ filtered = <<>> /\ reply = <<>>
    /\ extracted = NoObject /\ status = 0
    /\ conv = <<>> /\ calls = <<>>

Init ==
    /\ pc = "request"
    /\ message \in Messages
    /\ history \in SomeHistories
    /\ llm \in LlmBehaviours
    /\ IdleRest

Spec == Init /\ [][Next]_vars

\* requests with generated histories, answered by a collaborator that succeeds
InitHistory ==
    /\ pc = "request"
    /\ message = <<" ", "my roof leaks", " ">>
    /\ history \in Histories
    /\ llm = IdleLlm
    /\ IdleRest

SpecHistory == InitHistory /\ [][Next]_vars

-----------------------------------------------------------------------------
(* Specification of _soften_guarantees alone *)

SoftenAlphabet == {CannotPhrase, CantPhrase, "guarantee", "Guarantee",
    "definitely", "for sure", "100%", "will be fixed", "is fixed", ".", " ", "d"}

InitSoften ==
    /\ pc = "soften"
    /\ text \in TextsUpTo(SoftenAlphabet, MaxSoftenLen)
    /\ once = <<>> /\ twice = <<>>
    /\ draft = <<>> /\ blob = <<>> /\ facts = SentinelFacts
    /\ softened = <<>> /\ filtered = <<>> /\ reply = <<>>
    /\ extracted = NoObject /\ status = 0
    /\ NoRequest

SoftenOnce ==
    /\ pc = "soften"
    /\ once' = _soften_guarantees(text)
    /\ pc' = "soften_again"
    /\ UNCHANGED <<text, twice, guardVars, extracted, status, requestVars, conv, calls>>

SoftenTwice ==
    /\ pc = "soften_again"
    /\ twice' = _soften_guarantees(once)
    /\ pc' = "softened"
    /\ UNCHANGED <<text, once, guardVars, extracted, status, requestVars, conv, calls>>

NextSoften == SoftenOnce \/ SoftenTwice

SpecSoften == InitSoften /\ [][NextSoften]_vars

\* C6: softening is idempotent: softening the softened text changes nothing,
\* and no rule of the table matches anywhere in the softened text.
SoftenIdempotent ==
    pc = "softened" =>
        /\ twice = once
        /\ \A k \in 1..Len(Replacements) : ReSub(Replacements[k], once) = once

\* C6 witness: a replacement that abuts a word character of the input was made
\* and the text was softened twice
SoftenIdempotentWitness ==
    /\ pc = "softened"
    /\ \E i \in 1..(Len(text) - 1) :
           /\ text[i] = "100%" /\ text[i + 1] = "d"
           /\ once[i] = "to the best of our assessment" /\ once[i + 1] = "d"
    /\ \E i \in 1..Len(text) : text[i] = "for sure"

-----------------------------------------------------------------------------
(* Specification of apply_guardrails alone *)

InitGuard ==
    /\ pc = "guard"
    /\ draft \in GuardDrafts
    /\ blob \in GuardBlobs
    /\ facts \in GuardFacts
    /\ text = <<>> /\ once = <<>> /\ twice = <<>>
    /\ softened = <<>> /\ filtered = <<>> /\ reply = <<>>
    /\ extracted = NoObject /\ status = 0
    /\ NoRequest

ApplyGuardrails ==
    /\ pc = "guard"
    /\ LET g == Guardrails(draft, blob, facts)
       IN  /\ softened' = g.softened
           /\ filtered' = g.filtered
           /\ reply' = g.reply
    /\ pc' = "guarded"
    /\ UNCHANGED <<softenVars, draft, blob, facts, extracted, status, requestVars, conv, calls>>

NextGuard == ApplyGuardrails

SpecGuard == InitGuard /\ [][NextGuard]_vars

-----------------------------------------------------------------------------
(* Properties of apply_guardrails *)

\* the evidence blob of the request being guarded
Evidence == CombinedContext(blob, facts)

\* the sentences of a text; the empty text has none
SentencesOf(t) == IF t = <<>> THEN <<>> ELSE Split(t)

Risky(sentences) == SelectSeq(sentences, LAMBDA s : AnyMarkerIn(s))

NonRisky(sentences) == SelectSeq(sentences, LAMBDA s : ~AnyMarkerIn(s))

Retained(sentence, output) ==
    \E j \in 1..Len(SentencesOf(output)) : SentencesOf(output)[j] = sentence

\* C1: apply_guardrails never returns an empty string; a blank draft returns
\* the first fallback, a draft whose sentences are all dropped returns the
\* second fallback, and the two fallbacks differ.
GuardrailsTotal ==
    pc = "guarded" =>
        /\ reply # <<>>
        /\ Strip(reply) # <<>>
        /\ Strip(draft) = <<>> => reply = Fallback1
        /\ ( /\ Strip(draft) # <<>>
             /\ ~AnyMarkerIn(Evidence)
             /\ NonRisky(SentencesOf(_soften_guarantees(Strip(draft)))) = <<>> )
           => reply = Fallback2
        /\ Fallback1 # Fallback2

\* C1 witness: every sentence of a non-blank draft was dropped
GuardrailsTotalWitness ==
    /\ pc = "guarded"
    /\ Strip(draft) # <<>>
    /\ Len(SentencesOf(softened)) >= 2
    /\ ~AnyMarkerIn(Evidence)
    /\ reply = Fallback2

\* C2: when the evidence blob holds no risky marker, the returned reply holds
\* no risky marker.
NoUncorroboratedClaim ==
    (pc = "guarded" /\ ~AnyMarkerIn(Evidence)) => ~AnyMarkerIn(reply)

\* C2 witness: a sentence with a capitalised marker was dropped while another
\* sentence of the draft was returned
NoUncorroboratedClaimWitness ==
    /\ pc = "guarded"
    /\ ~AnyMarkerIn(Evidence)
    /\ \E i \in 1..Len(softened) : softened[i] = "Refund has been issued"
    /\ reply \notin {Fallback1, Fallback2}
    /\ Len(SentencesOf(reply)) >= 1

ScenarioShape(d) ==
    /\ \E i \in 1..Len(d) : Lower(d[i]) = "definitely"
    /\ \E i \in 1..(Len(d) - 1) : d[i] = "100%" /\ d[i + 1] = " "
    /\ \E i \in 1..(Len(d) - 1) : Lower(d[i]) = "guarantee" /\ d[i + 1] = "d"
    /\ \E k \in 1..Len(SentencesOf(Strip(d))) :
           SentencesOf(Strip(d))[k] = <<"The refund has been issued.">>

\* C5: for such a draft and no corroborating context the refund sentence is
\* dropped, "definitely" becomes "likely", "100%" becomes "to the best of our
\* assessment", "guaranteed" becomes "committed", and the reply is not empty.
SofteningScenario ==
    (pc = "guarded" /\ ScenarioShape(draft) /\ ~AnyMarkerIn(Evidence)) =>
        /\ reply # <<>>
        /\ ~MarkerIn("refund has been issued", reply)
        /\ \A i \in 1..Len(reply) :
               Lower(reply[i]) \notin {"definitely", "100%", "guarantee"}
        /\ \E i \in 1..Len(reply) : reply[i] = "likely"
        /\ \E i \in 1..Len(reply) : reply[i] = "to the best of our assessment"
        /\ \E i \in 1..(Len(reply) - 1) : reply[i] = "commit" /\ reply[i + 1] = "d"

\* C7: the sentences of the softened draft that hold no risky marker are the
\* sentences of the claim-removal output that hold no risky marker, in the same
\* order and token for token, and the output separates its sentences by single
\* spaces.
NonRiskyPassthrough ==
    (pc = "guarded" /\ Strip(draft) # <<>>) =>
        /\ NonRisky(SentencesOf(filtered)) = NonRisky(SentencesOf(softened))
        /\ filtered = Join(SentencesOf(filtered))

\* C7 witness: the middle sentence of three was dropped and the two others,
\* separated by line breaks in the draft, were returned with one space
NonRiskyPassthroughWitness ==
    /\ pc = "guarded"
    /\ draft = ThreeSentenceDraft
    /\ filtered = <<"Thanks", ".", " ", "Thanks">>

-----------------------------------------------------------------------------
(* Specification of StructuredExtraction.model_validate alone *)

\* the values a key of the model's JSON object may hold
FieldValues == {Absent, JNull, JStr(<<>>), JStr(<<" ">>),
    JStr(<<" ", "leak", "\n">>), JNum, JObj, JList(<<>>),
    JList(<<JStr(<<>>), JStr(<<" ", "address">>), JNull>>)}

ScenarioObject == [NoObject EXCEPT !["issue_type"] = JStr(<<>>),
                                   !["missing_information"] = JNull]

InitFacts ==
    /\ pc = "validate"
    /\ extracted \in [FieldNames -> FieldValues]
    /\ facts = SentinelFacts /\ status = 0
    /\ NoRequest
    /\ text = <<>> /\ once = <<>> /\ twice = <<>>
    /\ draft = <<>> /\ blob = <<>>
    /\ softened = <<>> /\ filtered = <<>> /\ reply = <<>>

\* respond, lines 114 and 139-143: a validation error is an Exception that is
\* not an LLMServiceError
ValidateFacts ==
    /\ pc = "validate"
    /\ LET r == model_validate(extracted)
       IN  IF r.ok
           THEN /\ facts' = r.value /\ status' = status /\ pc' = "validated"
           ELSE /\ facts' = facts /\ status' = 500 /\ pc' = "validation_error"
    /\ UNCHANGED <<softenVars, draft, blob, softened, filtered, reply, extracted,
                   requestVars, conv, calls>>

NextFacts == ValidateFacts

SpecFacts == InitFacts /\ [][NextFacts]_vars

NonEmptyText(t) == t # <<>> /\ Strip(t) # <<>>

\* C4: model_validate does not fail on any JSON object, and yields a record
\* whose four text fields are non-empty strings and whose missing_information
\* is a non-empty sequence of non-empty strings; the object
\* {"issue_type": "", "missing_information": null} yields the sentinel record.
FactsNormalizationTotal ==
    pc \in {"validated", "validation_error"} =>
        /\ pc = "validated"
        /\ \A f \in TextFields : NonEmptyText(facts[f])
        /\ facts.missing_information # <<>>
        /\ \A i \in 1..Len(facts.missing_information) :
               NonEmptyText(facts.missing_information[i])
        /\ extracted = ScenarioObject => facts = SentinelFacts

-----------------------------------------------------------------------------
(* Properties of respond *)

\* a dict whose trimmed, lower-cased role is user or assistant and whose
\* trimmed content is not empty
ValidRecord(item) ==
    /\ item.dict
    /\ LowerText(Strip(item.role)) \in {<<"user">>, <<"assistant">>}
    /\ Strip(item.content) # <<>>

\* the record as the conversation holds it: role and content trimmed, role
\* lower-cased
Normalized(item) ==
    [role |-> LowerText(Strip(item.role)), content |-> Strip(item.content)]

ValidPositions(items) == {i \in 1..Len(items) : ValidRecord(items[i])}

\* C8: once respond has normalized the history, the conversation holds the
\* valid records of the input in their order, cut to the last MAX_HISTORY valid
\* ones: its j-th record is the valid record that has exactly Len(conv) - j
\* valid records after it.
HistoryBounding ==
    calls # <<>> =>
        LET items == normalize_history(history)
            valid == ValidPositions(items)
            n == IF Cardinality(valid) <= 10 THEN Cardinality(valid) ELSE 10
        IN  /\ Len(conv) = n
            /\ \A j \in 1..Len(conv) :
                   \E i \in valid :
                       /\ Cardinality({v \in valid : v > i}) = Len(conv) - j
                       /\ conv[j] = Normalized(items[i])

\* C8 witness: twelve records of which eleven are valid, the invalid one among
\* the last ten: the conversation is the last ten valid records
HistoryBoundingWitness ==
    /\ calls # <<>>
    /\ Len(normalize_history(history)) = 12
    /\ Cardinality(ValidPositions(normalize_history(history))) = 11
    /\ ~ValidRecord(normalize_history(history)[7])
    /\ Len(conv) = 10
    /\ conv[1] = Normalized(normalize_history(history)[2])

\* C9: a request whose message is empty after trimming never causes a model
\* call and never ends with a reply, 502 or 500; when respond runs on it (the
\* schema accepted the body) it ends with 400.
BlankMessageRejected ==
    Strip(message) = <<>> =>
        /\ calls = <<>>
        /\ reply = <<>>
        /\ status \notin {200, 500, 502}
        /\ pc = "done" =>
               status = IF RequestValid(message, history) THEN 400 ELSE 422

\* C9 witness: respond ran on a whitespace-only message and answered 400
BlankMessageRejectedWitness ==
    /\ pc = "done"
    /\ message = <<"\n", " ">>
    /\ history.k = "list" /\ Len(history.items) = 5
    /\ status = 400
    /\ calls = <<>>

\* the failures of a model call that the claim lists: transport error,
\* non-success status, no choices, non-string or blank content
ListedCallFailure(x) ==
    \/ x.raises # "none"
    \/ /\ x.body = "dict"
       /\ \/ x.choices # "list"
          \/ /\ x.first = "dict"
             /\ \/ x.msg = "absent"
                \/ /\ x.msg = "dict"
                   /\ \/ x.content.k # "str"
                      \/ Strip(x.content.v) = <<>>

\* no JSON object is recoverable from the text: the direct parse does not
\* yield an object, and neither does the text from the first "{" to the last "}"
NoObjectRecoverable(t) ==
    LET raw == Strip(t)
    IN  /\ json_loads(raw).out # "dict"
        /\ \/ OpenAt(raw) = {} \/ CloseAt(raw) = {}
           \/ SetMax(CloseAt(raw)) < SetMin(OpenAt(raw))
           \/ json_loads(SubSeq(raw, SetMin(OpenAt(raw)), SetMax(CloseAt(raw)))).out
                  # "dict"

\* the extraction stage of the request failed in a way the claim lists
ExtractionFailed ==
    /\ calls = <<"extract">>
    /\ \/ ListedCallFailure(llm.extract)
       \/ /\ _call_openrouter(llm.api_key, llm.extract).out = "ok"
          /\ NoObjectRecoverable(llm.extract.content.v)

\* the synthesis stage of the request failed in a way the claim lists
SynthesisFailed ==
    /\ calls = <<"extract", "synth">>
    /\ ListedCallFailure(llm.synth)

\* C10: a request whose extraction or synthesis fails by a model call failure
\* or by a response from which no JSON object is recoverable ends with 502 and
\* without a reply.
UpstreamFailureIs502 ==
    (pc = "done" /\ (ExtractionFailed \/ SynthesisFailed)) =>
        status = 502 /\ reply = <<>>

\* the context blob respond builds from the request
RequestBlob ==
    ContextBlob(Append(BoundedHistory(history),
                       [role |-> <<"user">>, content |-> Strip(message)]))

\* the extraction call of the request returns a text from which an object is
\* recovered that StructuredExtraction accepts
ExtractionSucceeded ==
    LET called == _call_openrouter(llm.api_key, llm.extract)
    IN  /\ called.out = "ok"
        /\ _parse_json_object(called.content).out = "ok"
        /\ model_validate(_parse_json_object(called.content).value).ok

\* the facts StructuredExtraction makes of the extraction call's object
RequestFacts ==
    model_validate(_parse_json_object(
        _call_openrouter(llm.api_key, llm.extract).content).value).value

\* the calls issued so far are extract, then synth, each at most once; synth was
\* issued only on the normalized request and the normalized result of a
\* successful extraction; a 200 response carries apply_guardrails of the
\* request's draft, context and facts
PipelineState ==
    /\ calls \in {<<>>, <<"extract">>, <<"extract", "synth">>}
    /\ calls # <<>> =>
           /\ ~IsBlank(message)
           /\ conv = BoundedHistory(history)
           /\ blob = RequestBlob
    /\ calls = <<"extract", "synth">> =>
           /\ ExtractionSucceeded
           /\ facts = RequestFacts
    /\ status = 200 =>
           /\ calls = <<"extract", "synth">>
           /\ _call_openrouter(llm.api_key, llm.synth).out = "ok"
           /\ draft = _call_openrouter(llm.api_key, llm.synth).content
           /\ reply = apply_guardrails(draft, RequestBlob, RequestFacts)

\* a step issues at most one call, none once a call has failed or the response
\* is decided, and decides the response at most once
PipelineStep ==
    /\ calls' # calls =>
           /\ status = 0 /\ status' = 0
           /\ \E stage \in {"extract", "synth"} : calls' = Append(calls, stage)
    /\ status # 0 => UNCHANGED <<status, reply, calls>>
    /\ (status' # status /\ status' # 200) => reply' = <<>> /\ calls' = calls

\* C11: per request the stages run in the order normalize, extract, synthesize,
\* guardrail, without retry: at most two calls, extraction before synthesis,
\* synthesis only after a successful extraction whose result was normalized, no
\* call after a failed one, and every 200 response carries apply_guardrails
\* applied to the request's draft.
PipelineOrder == []PipelineState /\ [][PipelineStep]_vars

\* C11 witness: both calls were issued in order and the 200 response carries
\* the guardrail's rewrite of a draft it did not let through
PipelineOrderWitness ==
    /\ status = 200
    /\ calls = <<"extract", "synth">>
    /\ conv # <<>>
    /\ draft = <<"The refund has been issued.">>
    /\ reply = Fallback2

=============================================================================
